---- MODULE Spec2Model ----
(***************************************************************************)
(* Block propagation / selfish mining simulator (darosior/miningsimulation).*)
(* The model follows src/main.cpp: the Block and Miner structs, the miner   *)
(* operations FoundBlock, UnpublishedBlocks, SelfishBlocks, PublishedChain, *)
(* MaybeReorg, MaybeSelfishReveal, NotifyBestChain, PickFinder, the         *)
(* MinerStats reducer and the 1 ms simulation loop of main(); the unit test *)
(* TestSelfishStrategy drives FoundBlock on chains it assigns directly.     *)
(***************************************************************************)
EXTENDS Integers, Sequences, FiniteSets, TLC

\* ---------------------------------------------------------------- bounds
NumMiners == 3
MaxProp == 1
MaxInterval == 1
MaxTime == 3
MaxFinds == 5
\* The deep runs: three honest miners, more finds.
MaxFindsDeep == 7
\* The unit-test runs: blocks after genesis in a chain set by the test, and
\* calls of the operation under test.
MaxTestLen == 3
MaxTestCalls == 2
\* The PickFinder runs: hashrate shares are taken from a grid of
\* MaxPercLevels + 1 values between 0 and 100.
MaxPercLevels == 10
MaxRuns == 3
MaxWorkers == 2
MaxRunBlocks == 10
MaxRunFound == 3
MaxRunStale == 1
\* The RNG runs: seeds 0..MaxSeed next to the special ones, and rand64() calls.
MaxSeed == 15
MaxDraws == 5

\* ------------------------------------------------------ program constants
\* std::chrono::milliseconds::max(); kept as the largest integer the checker
\* represents.  The code never adds to it, it only compares against it.
SELFISH_ARRIVAL == 2147483647
\* std::numeric_limits<unsigned>::max(), written as its value modulo 2^32.
GenesisId == -1

\* uint64_t values are kept as four 16-bit limbs, least significant first;
\* additions and multiplications wrap modulo 2^64 as in the code.
Limb == 65536
U64Zero == <<0, 0, 0, 0>>
U64One == <<1, 0, 0, 0>>
\* std::numeric_limits<uint64_t>::max()
U64Max == <<Limb - 1, Limb - 1, Limb - 1, Limb - 1>>

U64Add(a, b) ==
    LET s1 == a[1] + b[1]
        s2 == a[2] + b[2] + (s1 \div Limb)
        s3 == a[3] + b[3] + (s2 \div Limb)
        s4 == a[4] + b[4] + (s3 \div Limb)
    IN <<s1 % Limb, s2 % Limb, s3 % Limb, s4 % Limb>>

\* a * k for a k below 2^15 (the products of a limb stay in range).
U64MulSmall(a, k) ==
    LET p1 == a[1] * k
        p2 == a[2] * k + (p1 \div Limb)
        p3 == a[3] * k + (p2 \div Limb)
        p4 == a[4] * k + (p3 \div Limb)
    IN <<p1 % Limb, p2 % Limb, p3 % Limb, p4 % Limb>>

\* a / d, integer division by a d below 2^15.
U64DivSmall(a, d) ==
    LET c4 == a[4]
        c3 == (c4 % d) * Limb + a[3]
        c2 == (c3 % d) * Limb + a[2]
        c1 == (c2 % d) * Limb + a[1]
    IN <<c1 \div d, c2 \div d, c3 \div d, c4 \div d>>

\* a > b
U64Greater(a, b) ==
    IF a[4] # b[4] THEN a[4] > b[4]
    ELSE IF a[3] # b[3] THEN a[3] > b[3]
    ELSE IF a[2] # b[2] THEN a[2] > b[2]
    ELSE a[1] > b[1]

\* std::numeric_limits<uint64_t>::max() / 100
PERC_MULTIPLIER == U64DivSmall(U64Max, 100)

MinerIdx == 1..NumMiners

\* SetupMiners(): the hashrate shares of the miners in vector order.  With
\* NumMiners miners the first NumMiners - 1 shares are kept and the last miner
\* holds the rest, so that the shares add up to 100.
HashrateShares == <<30, 29, 12, 11, 8, 5, 3, 1, 1>>

RECURSIVE SharesBefore(_)
SharesBefore(i) == IF i = 1 THEN 0 ELSE HashrateShares[i - 1] + SharesBefore(i - 1)

SetupPerc(i) == IF i < NumMiners THEN HashrateShares[i] ELSE 100 - SharesBefore(i)
Intervals == 0..MaxInterval

Block(id, time) == [miner_id |-> id, arrival |-> time]
\* Variant: the genesis block carries the id of the first miner.
Genesis_MinerZero == Block(0, 0)

\* Block::Genesis: not created by any miner, received immediately.
Genesis == Block(GenesisId, 0)

\* Miner::Miner: the chain starts with the genesis block, no stale block.
\* Miner ids are 0, 1, 2, ... in vector order as in SetupMiners().
\* Variant: the constructor leaves the chain empty.
NewMiner_NoGenesis(id_, perc_, prop, selfish) ==
    [id |-> id_, perc |-> perc_, propagation |-> prop, chain |-> <<>>,
     stale_blocks |-> 0, is_selfish |-> selfish]

NewMiner(id_, perc_, prop, selfish) ==
    [id |-> id_, perc |-> perc_, propagation |-> prop, chain |-> <<Genesis>>,
     stale_blocks |-> 0, is_selfish |-> selfish]

\* ------------------------------------------------------- Miner operations

\* Walks the chain from the back and stops at the first block whose arrival is
\* not SELFISH_ARRIVAL.
RECURSIVE SelfishScan(_, _)
SelfishScan(chain, k) ==
    IF k = 0 THEN 0
    ELSE IF chain[k].arrival # SELFISH_ARRIVAL THEN 0
         ELSE 1 + SelfishScan(chain, k - 1)

SelfishBlocks(chain) == SelfishScan(chain, Len(chain))

\* Walks the chain from the back and stops at the first block with
\* arrival <= cur_time, whatever is in front of it.
RECURSIVE UnpublishedScan(_, _, _)
UnpublishedScan(chain, t, k) ==
    IF k = 0 THEN 0
    ELSE IF chain[k].arrival <= t THEN 0
         ELSE 1 + UnpublishedScan(chain, t, k - 1)

UnpublishedBlocks(chain, t) == UnpublishedScan(chain, t, Len(chain))

\* Variant: nothing is held back, the whole chain counts as published.
PublishedSize_WholeChain(chain, t) == Len(chain)

\* The span is the first chain.size() - unpublished blocks of the chain.
PublishedSize(chain, t) == Len(chain) - UnpublishedBlocks(chain, t)
PublishedChain(chain, t) == SubSeq(chain, 1, PublishedSize(chain, t))

\* Variant: an honest miner's block arrives at once, propagation is ignored.
FoundBlock_HonestImmediate(m, block_time, bcs) ==
    IF m.is_selfish
    THEN LET is_race == SelfishBlocks(m.chain) = 1 /\ bcs = Len(m.chain)
         IN IF is_race
            THEN [m EXCEPT !.chain =
                     Append([m.chain EXCEPT ![Len(m.chain)].arrival =
                                              block_time + m.propagation],
                            Block(m.id, block_time + m.propagation))]
            ELSE [m EXCEPT !.chain = Append(m.chain, Block(m.id, SELFISH_ARRIVAL))]
    ELSE [m EXCEPT !.chain = Append(m.chain, Block(m.id, block_time))]

\* Variant: one private block is a race, whatever the size of the best chain.
FoundBlock_RaceIgnoresBest(m, block_time, bcs) ==
    IF m.is_selfish
    THEN LET is_race == SelfishBlocks(m.chain) = 1
         IN IF is_race
            THEN [m EXCEPT !.chain =
                     Append([m.chain EXCEPT ![Len(m.chain)].arrival =
                                              block_time + m.propagation],
                            Block(m.id, block_time + m.propagation))]
            ELSE [m EXCEPT !.chain = Append(m.chain, Block(m.id, SELFISH_ARRIVAL))]
    ELSE [m EXCEPT !.chain = Append(m.chain, Block(m.id, block_time + m.propagation))]

\* Variant: the race is won without publishing the block held back.
FoundBlock_RaceKeepsPrivate(m, block_time, bcs) ==
    IF m.is_selfish
    THEN LET is_race == SelfishBlocks(m.chain) = 1 /\ bcs = Len(m.chain)
         IN IF is_race
            THEN [m EXCEPT !.chain = Append(m.chain, Block(m.id, block_time + m.propagation))]
            ELSE [m EXCEPT !.chain = Append(m.chain, Block(m.id, SELFISH_ARRIVAL))]
    ELSE [m EXCEPT !.chain = Append(m.chain, Block(m.id, block_time + m.propagation))]

FoundBlock(m, block_time, bcs) ==
    IF m.is_selfish
    THEN LET is_race == SelfishBlocks(m.chain) = 1 /\ bcs = Len(m.chain)
         IN IF is_race
            THEN [m EXCEPT !.chain =
                     Append([m.chain EXCEPT ![Len(m.chain)].arrival =
                                              block_time + m.propagation],
                            Block(m.id, block_time + m.propagation))]
            ELSE [m EXCEPT !.chain = Append(m.chain, Block(m.id, SELFISH_ARRIVAL))]
    ELSE [m EXCEPT !.chain = Append(m.chain, Block(m.id, block_time + m.propagation))]

\* The for loop of MaybeReorg, i counted from 1 here (0 in the code).
RECURSIVE ReorgLoop(_, _, _)
ReorgLoop(m, best, i) ==
    IF i > Len(best) THEN m
    ELSE IF i > Len(m.chain)
         THEN ReorgLoop([m EXCEPT !.chain = Append(m.chain, best[i])], best, i + 1)
         ELSE IF m.chain[i] # best[i]
              THEN ReorgLoop([m EXCEPT !.chain[i] = best[i],
                                       !.stale_blocks =
                                           IF m.chain[i].miner_id = m.id
                                           THEN m.stale_blocks + 1
                                           ELSE m.stale_blocks],
                             best, i + 1)
              ELSE ReorgLoop(m, best, i + 1)

\* Variant: the best chain is adopted whatever its length.
MaybeReorg_AlwaysAdopts(m, best) ==
    IF Len(best) = 0 THEN m ELSE [ReorgLoop(m, best, 1) EXCEPT !.chain = best]

\* Variant: the loop stops one block short of best_chain.
MaybeReorg_StopsEarly(m, best) ==
    IF Len(best) <= Len(m.chain) THEN m
    ELSE ReorgLoop(m, SubSeq(best, 1, Len(best) - 1), 1)

\* Variant: the missing blocks are appended, the differing ones are kept.
MaybeReorg_AppendOnly(m, best) ==
    IF Len(best) <= Len(m.chain) THEN m
    ELSE [m EXCEPT !.chain = m.chain \o SubSeq(best, Len(m.chain) + 1, Len(best))]

\* Variant: a best chain of the same length already triggers the reorg.
MaybeReorg_AtEqualLength(m, best) ==
    IF Len(best) < Len(m.chain) THEN m ELSE ReorgLoop(m, best, 1)

\* Variant: every replaced block counts as stale, whoever created it.
MaybeReorg_CountsAnyBlock(m, best) ==
    IF Len(best) <= Len(m.chain) THEN m
    ELSE [ReorgLoop(m, best, 1) EXCEPT !.stale_blocks =
             m.stale_blocks + Cardinality({k \in 1..Len(m.chain) : m.chain[k] # best[k]})]

MaybeReorg(m, best) ==
    IF Len(best) <= Len(m.chain) THEN m ELSE ReorgLoop(m, best, 1)

\* Variant: the newest private blocks are revealed instead of the oldest.
RevealLoop_Newest(m, selfish_count, reveal_count, t) ==
    [m EXCEPT !.chain =
        [k \in 1..Len(m.chain) |->
            IF k > Len(m.chain) - reveal_count
            THEN [m.chain[k] EXCEPT !.arrival = t + m.propagation]
            ELSE m.chain[k]]]

\* The reveal loop: blocks chain.size() - selfish_count + i for i < reveal_count.
RevealLoop(m, selfish_count, reveal_count, t) ==
    [m EXCEPT !.chain =
        [k \in 1..Len(m.chain) |->
            IF /\ k > Len(m.chain) - selfish_count
               /\ k <= Len(m.chain) - selfish_count + reveal_count
            THEN [m.chain[k] EXCEPT !.arrival = t + m.propagation]
            ELSE m.chain[k]]]

\* Variant: nothing is revealed while the best chain is not shorter.
MaybeSelfishReveal_NoTieReveal(m, best, t) ==
    IF ~m.is_selfish THEN m
    ELSE IF Len(best) >= Len(m.chain) THEN m
    ELSE LET selfish_count == SelfishBlocks(m.chain)
             current_lead == Len(m.chain) - Len(best)
         IN IF selfish_count > current_lead
            THEN LET reveal_count ==
                         IF selfish_count > 1 /\ current_lead = 1
                         THEN selfish_count
                         ELSE selfish_count - current_lead
                 IN RevealLoop(m, selfish_count, reveal_count, t)
            ELSE m

\* Variant: without the special case, as many blocks as the others found.
MaybeSelfishReveal_NoSpecialCase(m, best, t) ==
    IF ~m.is_selfish THEN m
    ELSE IF Len(best) > Len(m.chain) THEN m
    ELSE LET selfish_count == SelfishBlocks(m.chain)
             current_lead == Len(m.chain) - Len(best)
         IN IF selfish_count > current_lead
            THEN RevealLoop(m, selfish_count, selfish_count - current_lead, t)
            ELSE m

\* Variant: once the others catch up, the whole private branch is revealed.
MaybeSelfishReveal_RevealsAll(m, best, t) ==
    IF ~m.is_selfish THEN m
    ELSE IF Len(best) > Len(m.chain) THEN m
    ELSE LET selfish_count == SelfishBlocks(m.chain)
             current_lead == Len(m.chain) - Len(best)
         IN IF selfish_count > current_lead
            THEN RevealLoop(m, selfish_count, selfish_count, t)
            ELSE m

\* Variant: a longer best chain does not end the call, the lead goes negative.
MaybeSelfishReveal_NoSwitch(m, best, t) ==
    IF ~m.is_selfish THEN m
    ELSE LET selfish_count == SelfishBlocks(m.chain)
             current_lead == Len(m.chain) - Len(best)
         IN IF selfish_count > current_lead
            THEN LET reveal_count ==
                         IF selfish_count > 1 /\ current_lead = 1
                         THEN selfish_count
                         ELSE selfish_count - current_lead
                 IN RevealLoop(m, selfish_count, reveal_count, t)
            ELSE m

\* Variant: one private block is revealed per call.
MaybeSelfishReveal_OneAtATime(m, best, t) ==
    IF ~m.is_selfish THEN m
    ELSE IF Len(best) > Len(m.chain) THEN m
    ELSE LET selfish_count == SelfishBlocks(m.chain)
             current_lead == Len(m.chain) - Len(best)
         IN IF selfish_count > current_lead
            THEN RevealLoop(m, selfish_count, 1, t)
            ELSE m

MaybeSelfishReveal(m, best, t) ==
    IF ~m.is_selfish THEN m
    ELSE IF Len(best) > Len(m.chain) THEN m
    ELSE LET selfish_count == SelfishBlocks(m.chain)
             current_lead == Len(m.chain) - Len(best)
         IN IF selfish_count > current_lead
            THEN LET reveal_count ==
                         IF selfish_count > 1 /\ current_lead = 1
                         THEN selfish_count
                         ELSE selfish_count - current_lead
                 IN RevealLoop(m, selfish_count, reveal_count, t)
            ELSE m

NotifyBestChain(m, best, t) == MaybeReorg(MaybeSelfishReveal(m, best, t), best)

\* ------------------------------------------------------------ PickFinder
\* The for loop of PickFinder: i is the accumulator, k the miner reached.
\* The result is the index of the miner returned, 0 when the loop ends
\* without a return (the assertion fails).
RECURSIVE PickLoop(_, _, _, _)
PickLoop(ms, random, i, k) ==
    IF k > NumMiners THEN 0
    ELSE LET acc == U64Add(i, U64MulSmall(PERC_MULTIPLIER, ms[k].perc))
         IN IF U64Greater(acc, random) THEN k ELSE PickLoop(ms, random, acc, k + 1)

\* Variant: the comparison is i >= random.
RECURSIVE PickLoopAtLeast(_, _, _, _)
PickLoopAtLeast(ms, random, i, k) ==
    IF k > NumMiners THEN 0
    ELSE LET acc == U64Add(i, U64MulSmall(PERC_MULTIPLIER, ms[k].perc))
         IN IF ~U64Greater(random, acc) THEN k ELSE PickLoopAtLeast(ms, random, acc, k + 1)

PickFinder_AtLeast(ms, random) == PickLoopAtLeast(ms, random, U64Zero, 1)

PickFinder(ms, random) == PickLoop(ms, random, U64Zero, 1)

\* MinerStats::MinerStats, the count_if over the best chain.
RECURSIVE CountId(_, _, _)
CountId(chain, id, k) ==
    IF k = 0 THEN 0
    ELSE (IF chain[k].miner_id = id THEN 1 ELSE 0) + CountId(chain, id, k - 1)

BlocksFoundIn(m, best) == CountId(best, m.id, Len(best))

\* --------------------------------------------------------------- double
\* The sums of the statistics are sums of doubles.  A double that is not
\* negative is kept as [m, e] with the value m * 2^e, m = 0 or
\* 2^52 <= m < 2^53 (a uint64_t in limbs); every operation rounds to nearest,
\* ties to even, as the hardware does.
\* a % d, for a d below 2^15.
U64ModSmall(a, d) ==
    LET c4 == a[4]
        c3 == (c4 % d) * Limb + a[3]
        c2 == (c3 % d) * Limb + a[2]
        c1 == (c2 % d) * Limb + a[1]
    IN c1 % d

RECURSIVE Pow2(_)
Pow2(k) == IF k = 0 THEN 1 ELSE 2 * Pow2(k - 1)

\* 2^52, 2^53 and 2^56.
Two52 == <<0, 0, 0, 16>>
Two53 == <<0, 0, 0, 32>>
Two56 == <<0, 0, 0, 256>>

DblZero == [m |-> U64Zero, e |-> 0]

\* v >> d, the lowest bit set when a bit that was shifted out was set.
RECURSIVE ShiftRightSticky(_, _, _)
ShiftRightSticky(v, d, sticky) ==
    IF d = 0 THEN (IF sticky /\ v[1] % 2 = 0 THEN [v EXCEPT ![1] = @ + 1] ELSE v)
    ELSE LET k == IF d < 14 THEN d ELSE 14
         IN ShiftRightSticky(U64DivSmall(v, Pow2(k)), d - k,
                             sticky \/ U64ModSmall(v, Pow2(k)) # 0)

\* q or q + 1 with its exponent, normalised again when q + 1 = 2^53.
DblRound(q, e, up) ==
    LET r == IF up THEN U64Add(q, U64One) ELSE q
    IN IF r = Two53 THEN [m |-> Two52, e |-> e + 1] ELSE [m |-> r, e |-> e]

\* static_cast<double>(a) / b for 0 <= a < 2^15 and 0 < b < 2^10: x = a * 2^-e
\* is doubled until x / b has 53 bits, then the quotient is rounded.
RECURSIVE DblQuotient(_, _, _)
DblQuotient(x, b, e) ==
    LET q == U64DivSmall(x, b)
        r == U64ModSmall(x, b)
    IN IF U64Greater(Two52, q) THEN DblQuotient(U64MulSmall(x, 2), b, e - 1)
       ELSE DblRound(q, e, 2 * r > b \/ (2 * r = b /\ q[1] % 2 = 1))

DblDiv(a, b) == IF a = 0 THEN DblZero ELSE DblQuotient(<<a, 0, 0, 0>>, b, 0)

\* x + y: three more bits (guard, round, sticky) decide the rounding.
DblAdd(x, y) ==
    IF x.m = U64Zero THEN y
    ELSE IF y.m = U64Zero THEN x
    ELSE LET big == IF x.e >= y.e THEN x ELSE y
             small == IF x.e >= y.e THEN y ELSE x
             d == big.e - small.e
             s0 == U64Add(U64MulSmall(big.m, 8),
                          IF d > 56 THEN U64One
                          ELSE ShiftRightSticky(U64MulSmall(small.m, 8), d, FALSE))
             carry == ~U64Greater(Two56, s0)
             s == IF carry THEN ShiftRightSticky(s0, 1, FALSE) ELSE s0
             q == U64DivSmall(s, 8)
             low == s[1] % 8
         IN DblRound(q, big.e + (IF carry THEN 1 ELSE 0),
                     low > 4 \/ (low = 4 /\ q[1] % 2 = 1))

\* ------------------------------------------------------------------ RNG
\* The xoroshiro128++ generator of the simulation (class RNG), on the
\* 16-bit limbs of uint64_t; every operation wraps modulo 2^64.

\* a ^ b on two limbs.
RECURSIVE Xor16(_, _)
Xor16(a, b) ==
    IF a = 0 THEN b
    ELSE IF b = 0 THEN a
    ELSE ((a + b) % 2) + 2 * Xor16(a \div 2, b \div 2)

U64Xor(a, b) == [k \in 1..4 |-> Xor16(a[k], b[k])]

\* Limb k of a, 0 outside of the word.
LimbAt(a, k) == IF k \in 1..4 THEN a[k] ELSE 0

\* a << n and a >> n for 0 <= n < 64.
U64Shl(a, n) ==
    LET q == n \div 16
        r == n % 16
    IN [k \in 1..4 |->
           ((LimbAt(a, k - q) * Pow2(r)) % Limb) + (LimbAt(a, k - q - 1) \div Pow2(16 - r))]

U64Shr(a, n) ==
    LET q == n \div 16
        r == n % 16
    IN [k \in 1..4 |->
           (LimbAt(a, k + q) \div Pow2(r))
           + (IF r = 0 THEN 0 ELSE (LimbAt(a, k + q + 1) * Pow2(16 - r)) % Limb)]

\* std::rotl(a, n) for 0 < n < 64: the two parts have no bit in common.
U64Rotl(a, n) == U64Add(U64Shl(a, n), U64Shr(a, 64 - n))

\* a * b: b is taken one byte at a time so that the products of a limb
\* stay in range.
RECURSIVE MulBytes(_, _, _)
MulBytes(a, b, j) ==
    IF j = 8 THEN U64Zero
    ELSE LET byte == (b[(j \div 2) + 1] \div (IF j % 2 = 0 THEN 1 ELSE 256)) % 256
         IN U64Add(U64Shl(U64MulSmall(a, byte), 8 * j), MulBytes(a, b, j + 1))

U64Mul(a, b) == MulBytes(a, b, 0)

\* 0x9e3779b97f4a7c15, 0xbf58476d1ce4e5b9 and 0x94d049bb133111eb
Gamma == <<31765, 32586, 31161, 40503>>
MixMul1 == <<58809, 7396, 18285, 48984>>
MixMul2 == <<4587, 4913, 18875, 38096>>

\* RNG::SplitMix64(seedval): seedval is advanced, the result is z mixed.
SplitMix64(seedval) ==
    LET z0 == U64Add(seedval, Gamma)
        z1 == U64Mul(U64Xor(z0, U64Shr(z0, 30)), MixMul1)
        z2 == U64Mul(U64Xor(z1, U64Shr(z1, 27)), MixMul2)
    IN [seedval |-> z0, result |-> U64Xor(z2, U64Shr(z2, 31))]

\* Variant: both state words are taken from the first SplitMix64 advance.
NewRNG_OneAdvance(seedval) ==
    LET first == SplitMix64(seedval)
    IN [m_s0 |-> first.result, m_s1 |-> first.result]

\* RNG::RNG(seedval): m_s0, then m_s1, each from one more advance.
NewRNG(seedval) ==
    LET first == SplitMix64(seedval)
        second == SplitMix64(first.seedval)
    IN [m_s0 |-> first.result, m_s1 |-> second.result]

\* RNG::rand64(): the result and the generator after the call.
Rand64(g) ==
    LET s0 == g.m_s0
        result == U64Add(U64Rotl(U64Add(s0, g.m_s1), 17), s0)
        s1 == U64Xor(g.m_s1, s0)
    IN [result |-> result,
        m_s0 |-> U64Xor(U64Xor(U64Rotl(s0, 49), s1), U64Shl(s1, 21)),
        m_s1 |-> U64Rotl(s1, 28)]

\* ----------------------------------------------------------- statistics
\* The quotient of two integers as a double: the exact ratio, or the outcome
\* of a division by zero.
FZero == [kind |-> "ratio", num |-> 0, den |-> 1]
FDiv(a, b) == IF b = 0 THEN [kind |-> "div_by_zero", num |-> a, den |-> 0]
              ELSE [kind |-> "ratio", num |-> a, den |-> b]
IsZero(x) == x.kind = "ratio" /\ x.num = 0

\* MinerStats::MinerStats.
MinerStats(m, best_chain) ==
    LET blocks_found == BlocksFoundIn(m, best_chain)
    IN [blocks_found |-> blocks_found,
        blocks_share |-> IF blocks_found = 0 THEN FZero
                         ELSE FDiv(blocks_found, Len(best_chain) - 1),
        stale_rate |-> IF blocks_found = 0 THEN FZero
                       ELSE FDiv(m.stale_blocks, blocks_found)]

\* Miner::BlocksFound: the published blocks of the miner in its own chain.
RECURSIVE CountPublished(_, _, _, _)
CountPublished(chain, id, t, k) ==
    IF k = 0 THEN 0
    ELSE (IF chain[k].miner_id = id /\ chain[k].arrival <= t THEN 1 ELSE 0)
         + CountPublished(chain, id, t, k - 1)

BlocksFound(m, t) == CountPublished(m.chain, m.id, t, Len(m.chain))

\* Miner::BlocksFoundShare.
BlocksFoundShare(m, t) ==
    LET published_blocks == Len(m.chain) - UnpublishedBlocks(m.chain, t)
        found_blocks == BlocksFound(m, t)
    IN FDiv(found_blocks, published_blocks - 1)

\* Miner::StaleRate.
StaleRate(m, t) ==
    LET found_blocks == BlocksFound(m, t)
    IN IF found_blocks = 0 THEN FZero ELSE FDiv(m.stale_blocks, found_blocks)

\* --------------------------------------------------------------- state
VARIABLES
    miners,            \* std::vector<Miner> miners
    cur_time,          \* loop variable of main()
    next_block_time,   \* absolute time of the next find
    best_chain_size,   \* size of the best chain of the previous step
    best,              \* std::span best_chain: owner index and size (a view)
    pc,                \* position in the loop body
    idx,               \* miner being notified
    found,             \* number of FoundBlock calls per miner (history)
    prev,              \* the last miner operation and the miner before it (history)
    random,            \* the rand64() draw of the PickFinder call under test
    finder,            \* the miner that call returned, 0 for none
    ref,               \* the same run advanced 1 ms at a time (comparison run)
    harness,           \* the Monte Carlo harness: tasks, their results, accumulator
    chosen,            \* contents of the best chain of the step before (history)
    rng                \* the RNG object under test: its seed, m_s0 and m_s1

vars == <<miners, cur_time, next_block_time, best_chain_size, best, pc, idx, found, prev,
          random, finder, ref, harness, chosen, rng>>

NoSpan == [owner |-> 0, size |-> 0]
NoRef == [miners |-> <<>>, bcs |-> 0]
NoHarness == [task |-> <<>>, stats |-> <<>>, acc |-> <<>>, order |-> <<>>]
NoRng == <<>>
NoOp == [op |-> "none", i |-> 0, m |-> NewMiner(0, 0, 0, FALSE)]

\* The span reads the owner's buffer as it is now.
SpanChain(ms, b) == IF b.owner = 0 THEN <<>> ELSE SubSeq(ms[b.owner].chain, 1, b.size)
BestChain == SpanChain(miners, best)

\* The scan of main(): miners in vector order, more work or first seen.
RECURSIVE BestScan(_, _, _, _)
BestScan(ms, t, i, b) ==
    IF i > NumMiners THEN b
    ELSE LET psize == PublishedSize(ms[i].chain, t)
             more_work == psize > b.size
             first_seen == /\ psize = b.size
                           /\ psize # 0
                           /\ ms[i].chain[psize].arrival < ms[b.owner].chain[b.size].arrival
         IN BestScan(ms, t, i + 1,
                     IF more_work \/ first_seen THEN [owner |-> i, size |-> psize] ELSE b)

\* Variant: among chains of the same size the one that arrived last wins.
RECURSIVE BestScanLastSeen(_, _, _, _)
BestScanLastSeen(ms, t, i, b) ==
    IF i > NumMiners THEN b
    ELSE LET psize == PublishedSize(ms[i].chain, t)
             more_work == psize > b.size
             last_seen == /\ psize = b.size
                          /\ psize # 0
                          /\ ms[i].chain[psize].arrival > ms[b.owner].chain[b.size].arrival
         IN BestScanLastSeen(ms, t, i + 1,
                     IF more_work \/ last_seen THEN [owner |-> i, size |-> psize] ELSE b)

ScanBestChain_LastSeen(ms, t) == BestScanLastSeen(ms, t, 1, NoSpan)

ScanBestChain(ms, t) == BestScan(ms, t, 1, NoSpan)

TotalFound == LET RECURSIVE Sum(_)
                  Sum(i) == IF i = 0 THEN 0 ELSE found[i] + Sum(i - 1)
              IN Sum(NumMiners)

InitLoop ==
    /\ \E props \in [MinerIdx -> 0..MaxProp], selfish \in [MinerIdx -> BOOLEAN] :
           miners = [i \in MinerIdx |-> NewMiner(i - 1, SetupPerc(i), props[i], selfish[i])]
    /\ cur_time = 0
    /\ next_block_time \in Intervals
    /\ best_chain_size = 1
    /\ best = NoSpan
    /\ pc = "drain"
    /\ idx = 0
    /\ found = [i \in MinerIdx |-> 0]
    /\ prev = NoOp
    /\ random = U64Zero
    /\ finder = 0
    /\ harness = NoHarness
    /\ chosen = <<>>
    /\ rng = NoRng

Init ==
    /\ InitLoop
    /\ ref = NoRef

\* Three honest miners, the first with immediate propagation.
InitDeep ==
    /\ miners = [i \in MinerIdx |-> NewMiner(i - 1, SetupPerc(i), IF i = 1 THEN 0 ELSE 1, FALSE)]
    /\ cur_time = 0
    /\ next_block_time \in Intervals
    /\ best_chain_size = 1
    /\ best = NoSpan
    /\ pc = "drain"
    /\ idx = 0
    /\ found = [i \in MinerIdx |-> 0]
    /\ prev = NoOp
    /\ random = U64Zero
    /\ finder = 0
    /\ harness = NoHarness
    /\ chosen = <<>>
    /\ rng = NoRng
    /\ ref = NoRef

\* next_block_time + NextBlockInterval(): an interval of 0..MaxInterval ms, or
\* one that carries the next find past the end of the run; the last find the
\* bound allows is followed by such an interval, so that the loop goes on.
NextFindTimes(max_finds) ==
    IF TotalFound + 1 < max_finds
    THEN {next_block_time + d : d \in Intervals} \cup {MaxTime + 1}
    ELSE {MaxTime + 1}

\* The rand64() draws of the loop: for each miner the draw at the sum of the
\* weights in front of it, and the largest draw.
RECURSIVE PercBefore(_, _)
PercBefore(ms, k) == IF k = 1 THEN 0 ELSE ms[k - 1].perc + PercBefore(ms, k - 1)

FinderDraws(ms) ==
    {U64MulSmall(PERC_MULTIPLIER, PercBefore(ms, k)) : k \in MinerIdx} \cup {U64Max}

\* One turn of the while loop: PickFinder, FoundBlock, next interval.  When
\* PickFinder returns no miner its assertion ends the program.
\* Variant: FoundBlock is passed the size of the best chain as it is now.
FindBlockCore_FreshBest(max_finds) ==
    /\ pc = "drain"
    /\ cur_time = next_block_time
    /\ TotalFound < max_finds
    /\ \E r \in FinderDraws(miners) :
         LET f == PickFinder(miners, r)
             fresh == ScanBestChain(miners, cur_time).size
         IN IF f = 0
            THEN /\ pc' = "no_finder"
                 /\ prev' = NoOp
                 /\ UNCHANGED <<miners, found, next_block_time>>
            ELSE /\ miners' = [miners EXCEPT ![f] = FoundBlock(miners[f], next_block_time, fresh)]
                 /\ found' = [found EXCEPT ![f] = @ + 1]
                 /\ prev' = [op |-> "found", i |-> f, m |-> miners[f], bcs |-> fresh]
                 /\ next_block_time' \in NextFindTimes(max_finds)
                 /\ pc' = pc
    /\ UNCHANGED <<cur_time, best_chain_size, best, idx, random, finder, harness, chosen, rng>>

FindBlockCore(max_finds) ==
    /\ pc = "drain"
    /\ cur_time = next_block_time
    /\ TotalFound < max_finds
    /\ \E r \in FinderDraws(miners) :
         LET f == PickFinder(miners, r)
         IN IF f = 0
            THEN /\ pc' = "no_finder"
                 /\ prev' = NoOp
                 /\ UNCHANGED <<miners, found, next_block_time>>
            ELSE /\ miners' = [miners EXCEPT ![f] =
                                   FoundBlock(miners[f], next_block_time, best_chain_size)]
                 /\ found' = [found EXCEPT ![f] = @ + 1]
                 /\ prev' = [op |-> "found", i |-> f, m |-> miners[f],
                              bcs |-> best_chain_size]
                 /\ next_block_time' \in NextFindTimes(max_finds)
                 /\ pc' = pc
    /\ UNCHANGED <<cur_time, best_chain_size, best, idx, random, finder, harness, chosen, rng>>

FindBlockUpTo(max_finds) == FindBlockCore(max_finds) /\ UNCHANGED ref

FindBlock == FindBlockUpTo(MaxFinds)
FindBlockDeep == FindBlockUpTo(MaxFindsDeep)

\* The while loop is over (cur_time # next_block_time).  The assertion
\* cur_time < next_block_time ends the program when it fails; otherwise the
\* scan for the best published chain follows.
ScanBest ==
    /\ pc = "drain"
    /\ cur_time # next_block_time
    /\ IF cur_time < next_block_time
       THEN /\ best' = ScanBestChain(miners, cur_time)
            /\ pc' = "reveal"
            /\ idx' = 1
       ELSE /\ pc' = "missed_block"
            /\ UNCHANGED <<best, idx>>
    /\ prev' = NoOp
    /\ UNCHANGED <<miners, cur_time, next_block_time, best_chain_size, found, random, finder, ref, harness, chosen, rng>>

\* NotifyBestChain of miner idx, first phase.
Reveal ==
    /\ pc = "reveal"
    /\ miners' = [miners EXCEPT ![idx] = MaybeSelfishReveal(miners[idx], BestChain, cur_time)]
    /\ pc' = "reorg"
    /\ prev' = [op |-> "reveal", i |-> idx, m |-> miners[idx]]
    /\ UNCHANGED <<cur_time, next_block_time, best_chain_size, best, idx, found, random, finder, ref, harness, chosen, rng>>

\* NotifyBestChain of miner idx, second phase; then the next miner.
Reorg ==
    /\ pc = "reorg"
    /\ miners' = [miners EXCEPT ![idx] = MaybeReorg(miners[idx], BestChain)]
    /\ IF idx = NumMiners
       THEN pc' = "update" /\ idx' = 0
       ELSE pc' = "reveal" /\ idx' = idx + 1
    /\ prev' = [op |-> "reorg", i |-> idx, m |-> miners[idx]]
    /\ UNCHANGED <<cur_time, next_block_time, best_chain_size, best, found, random, finder, ref, harness, chosen, rng>>

\* Variant: the loop advances in steps of 2 ms.
EndStep_TwoMs ==
    /\ pc = "update"
    /\ cur_time < MaxTime
    /\ best_chain_size' = best.size
    /\ best' = NoSpan
    /\ cur_time' = cur_time + 2
    /\ pc' = "drain"
    /\ prev' = NoOp
    /\ UNCHANGED <<miners, next_block_time, idx, found, random, finder, ref, harness, chosen, rng>>

\* best_chain_size = best_chain.size(); the span dies; cur_time += 1ms.
EndStepCore ==
    /\ pc = "update"
    /\ cur_time < MaxTime
    /\ best_chain_size' = best.size
    /\ best' = NoSpan
    /\ cur_time' = cur_time + 1
    /\ pc' = "drain"
    /\ prev' = NoOp
    /\ UNCHANGED <<miners, next_block_time, idx, found, random, finder, ref, harness, rng>>

EndStep == EndStepCore /\ UNCHANGED chosen

\* The same step, keeping a copy of the blocks the dying span showed.
EndStepSeen == EndStepCore /\ chosen' = BestChain

Next == FindBlock \/ ScanBest \/ Reveal \/ Reorg \/ EndStep

Spec == Init /\ [][Next]_vars

NextDeep == FindBlockDeep \/ ScanBest \/ Reveal \/ Reorg \/ EndStep

SpecDeep == InitDeep /\ [][NextDeep]_vars

\* Honest miners only, propagation 0 for all of them, and every
\* NextBlockInterval() strictly positive, the first one included.
InitHonest ==
    /\ Init
    /\ next_block_time > 0
    /\ \A i \in MinerIdx : ~miners[i].is_selfish /\ miners[i].propagation = 0

\* Variant: NextBlockInterval() may return 0.
FindBlockPositive_AnyInterval == FindBlock

\* A turn of the while loop whose next interval is not 0.
FindBlockPositive ==
    /\ FindBlock
    /\ pc' = "no_finder" \/ next_block_time' > next_block_time

NextHonest == FindBlockPositive \/ ScanBest \/ Reveal \/ Reorg \/ EndStep

SpecHonest == InitHonest /\ [][NextHonest]_vars

\* The 1 ms loop with a miner vector in which the miner at position z has
\* perc = 0; the other miners take the shares of SetupMiners() in order, the
\* last of them the rest, so that the shares add up to 100.
ZeroPerc(z, i) ==
    IF i = z THEN 0
    ELSE LET j == IF i < z THEN i ELSE i - 1
         IN IF j < NumMiners - 1 THEN HashrateShares[j] ELSE 100 - SharesBefore(j)

InitZero ==
    /\ \E z \in MinerIdx, props \in [MinerIdx -> 0..MaxProp], selfish \in [MinerIdx -> BOOLEAN] :
           miners = [i \in MinerIdx |-> NewMiner(i - 1, ZeroPerc(z, i), props[i], selfish[i])]
    /\ cur_time = 0
    /\ next_block_time \in Intervals
    /\ best_chain_size = 1
    /\ best = NoSpan
    /\ pc = "drain"
    /\ idx = 0
    /\ found = [i \in MinerIdx |-> 0]
    /\ prev = NoOp
    /\ random = U64Zero
    /\ finder = 0
    /\ harness = NoHarness
    /\ chosen = <<>>
    /\ rng = NoRng
    /\ ref = NoRef

SpecZero == InitZero /\ [][Next]_vars

\* The 1 ms loop with the best chain of the step before kept for comparison.
NextSeen == FindBlock \/ ScanBest \/ Reveal \/ Reorg \/ EndStepSeen

SpecSeen == Init /\ [][NextSeen]_vars

\* ------------------------------------------------------ jump-ahead loop
\* The loop that runs for SIM_DURATION and advances cur_time to the next
\* event instead of by 1 ms.  The 1 ms loop of main() runs next to it on the
\* same intervals and finders (ref), one whole step at a time.
SIM_DURATION == MaxTime

\* A step of main() after the drain: the scan, the notification of every
\* miner in vector order (the span reads the owner's buffer as it is then),
\* and best_chain_size.
RECURSIVE NotifyAll(_, _, _, _)
NotifyAll(ms, b, t, i) ==
    IF i > NumMiners THEN ms
    ELSE NotifyAll([ms EXCEPT ![i] = NotifyBestChain(ms[i], SpanChain(ms, b), t)],
                   b, t, i + 1)

OneMsStep(r, t) ==
    LET b == ScanBestChain(r.miners, t)
    IN [miners |-> NotifyAll(r.miners, b, t, 1), bcs |-> b.size]

\* The steps of the 1 ms loop at the times t..to, none of which finds a block.
RECURSIVE RunSteps(_, _, _)
RunSteps(r, t, to) == IF t > to THEN r ELSE RunSteps(OneMsStep(r, t), t + 1, to)

\* The arrivals still to come: cur_time < arrival < +infinity.
UnreachedArrivals(ms, t) ==
    {a \in UNION {{ms[i].chain[k].arrival : k \in 1..Len(ms[i].chain)} : i \in MinerIdx} :
        t < a /\ a < SELFISH_ARRIVAL}

SetMin(S) == CHOOSE x \in S : \A y \in S : x <= y

\* min(next_block_time, earliest unreached arrival across miners).
JumpTarget(ms, t, nbt) == SetMin({nbt} \cup UnreachedArrivals(ms, t))

InitJump ==
    /\ InitLoop
    /\ ref = [miners |-> miners, bcs |-> best_chain_size]

\* The drain; the 1 ms loop finds the same block at the same time.
FindBlockJump ==
    /\ FindBlockCore(MaxFinds)
    /\ ref' = IF found' = found THEN ref
              ELSE LET f == CHOOSE i \in MinerIdx : found'[i] # found[i]
                   IN [ref EXCEPT !.miners[f] = FoundBlock(@, next_block_time, ref.bcs)]

\* best_chain_size = best_chain.size(); cur_time jumps to the next event and
\* the loop ends once cur_time >= SIM_DURATION.
AdvanceTime ==
    /\ pc = "update"
    /\ LET target == JumpTarget(miners, cur_time, next_block_time)
       IN /\ cur_time' = target
          /\ pc' = IF target >= SIM_DURATION THEN "final" ELSE "drain"
    /\ best_chain_size' = best.size
    /\ best' = NoSpan
    /\ prev' = NoOp
    /\ UNCHANGED <<miners, next_block_time, idx, found, random, finder, harness, chosen, rng>>

\* The end of an iteration; the 1 ms loop makes the step of cur_time and the
\* steps in between, up to SIM_DURATION.
JumpStep ==
    /\ AdvanceTime
    /\ LET target == JumpTarget(miners, cur_time, next_block_time)
           last == (IF target < SIM_DURATION THEN target ELSE SIM_DURATION) - 1
       IN ref' = RunSteps(ref, cur_time, last)

EndIteration == AdvanceTime /\ UNCHANGED ref

\* After the loop: one final best chain at SIM_DURATION.
FinalBest ==
    /\ pc = "final"
    /\ best' = ScanBestChain(miners, SIM_DURATION)
    /\ pc' = "done"
    /\ prev' = NoOp
    /\ UNCHANGED <<miners, cur_time, next_block_time, best_chain_size, idx, found, random,
                   finder, ref, harness, chosen, rng>>

NextJump == FindBlockJump \/ ScanBest \/ Reveal \/ Reorg \/ JumpStep \/ FinalBest

SpecJump == InitJump /\ [][NextJump]_vars

\* A run of the jump-ahead loop alone.  The program runs on: whenever it has a
\* next instruction, that instruction is executed.
NextRun == FindBlock \/ ScanBest \/ Reveal \/ Reorg \/ EndIteration \/ FinalBest

SpecRun == Init /\ [][NextRun]_vars /\ WF_vars(NextRun)

\* ------------------------------------------------- TestSelfishStrategy
\* The unit test builds one miner (SM_ID = 0), assigns its chain directly and
\* calls the operation under test; the other blocks carry OTHERS_ID = 1.
SM_ID == 0
OTHERS_ID == 1
SM_PERC == 35

\* The chains the test assigns: genesis, then blocks of SM_ID and OTHERS_ID
\* with non-decreasing arrivals, then the miner's private blocks (a selfish
\* miner only).
IsTestChain(c, selfish) ==
    /\ \A k \in 1..Len(c) :
           c[k].arrival = SELFISH_ARRIVAL => (selfish /\ c[k].miner_id = SM_ID)
    /\ \A k \in 1..(Len(c) - 1) : c[k].arrival <= c[k + 1].arrival

TestBlocks ==
    {Block(id, a) : id \in {SM_ID, OTHERS_ID}, a \in (0..MaxTime) \cup {SELFISH_ARRIVAL}}

TestChains(selfish) ==
    UNION {{<<Genesis>> \o c : c \in {d \in [1..n -> TestBlocks] : IsTestChain(d, selfish)}}
           : n \in 0..MaxTestLen}

InitTest ==
    /\ \E prop \in 0..MaxProp, selfish \in BOOLEAN :
         \E c \in TestChains(selfish) :
           miners = [i \in MinerIdx |->
                        IF i = 1 THEN [NewMiner(SM_ID, SM_PERC, prop, selfish) EXCEPT !.chain = c]
                        ELSE NewMiner(i - 1, 0, 0, FALSE)]
    /\ cur_time = 0
    /\ next_block_time = 0
    /\ best_chain_size = 1
    /\ best = NoSpan
    /\ pc = "test"
    /\ idx = 0
    /\ found = [i \in MinerIdx |-> 0]
    /\ prev = NoOp
    /\ random = U64Zero
    /\ finder = 0
    /\ harness = NoHarness
    /\ chosen = <<>>
    /\ rng = NoRng
    /\ ref = NoRef

\* selfish_miner.FoundBlock(block_time, best_chain_size): cur_time records the
\* block time of the call and best_chain_size its second argument.
TestFoundBlock ==
    /\ pc = "test"
    /\ found[1] < MaxTestCalls
    /\ \E t \in cur_time..MaxTime, bcs \in 0..(MaxTestLen + MaxTestCalls + 1) :
        /\ miners' = [miners EXCEPT ![1] = FoundBlock(miners[1], t, bcs)]
        /\ cur_time' = t
        /\ best_chain_size' = bcs
    /\ found' = [found EXCEPT ![1] = @ + 1]
    /\ prev' = [op |-> "found", i |-> 1, m |-> miners[1]]
    /\ UNCHANGED <<next_block_time, best, pc, idx, random, finder, ref, harness, chosen, rng>>

NextTest == TestFoundBlock

SpecTest == InitTest /\ [][NextTest]_vars

\* ------------------------------------------------- NotifyBestChain alone
\* As in TestSelfishStrategy, the miner under test (SM_ID) is given a chain
\* directly and is notified of a best chain built by hand: here any chain of
\* blocks that have all arrived by cur_time, kept in the vector of a second
\* miner.  The call is repeated with the same arguments.
BestTestChains(t) ==
    {c \in TestChains(FALSE) : \A k \in 1..Len(c) : c[k].arrival <= t}

InitNotify ==
    /\ cur_time \in 0..MaxTime
    /\ \E prop \in 0..MaxProp, selfish \in BOOLEAN :
         \E c \in TestChains(selfish), b \in BestTestChains(cur_time) :
           /\ miners = [i \in MinerIdx |->
                          IF i = 1
                          THEN [NewMiner(SM_ID, SM_PERC, prop, selfish) EXCEPT !.chain = c]
                          ELSE IF i = 2
                          THEN [NewMiner(OTHERS_ID, 0, 0, FALSE) EXCEPT !.chain = b]
                          ELSE NewMiner(i - 1, 0, 0, FALSE)]
           /\ best = [owner |-> 2, size |-> Len(b)]
    /\ next_block_time = 0
    /\ best_chain_size = 1
    /\ pc = "notify"
    /\ idx = 0
    /\ found = [i \in MinerIdx |-> 0]
    /\ prev = NoOp
    /\ random = U64Zero
    /\ finder = 0
    /\ harness = NoHarness
    /\ chosen = <<>>
    /\ rng = NoRng
    /\ ref = NoRef

\* selfish_miner.NotifyBestChain(best_chain, cur_time); idx counts the calls
\* and prev.first keeps the miner as it was before the first of them.
TestNotify ==
    /\ pc = "notify"
    /\ idx < MaxTestCalls
    /\ miners' = [miners EXCEPT ![1] = NotifyBestChain(miners[1], BestChain, cur_time)]
    /\ idx' = idx + 1
    /\ prev' = [op |-> "notify", i |-> 1, m |-> miners[1],
                 first |-> IF idx = 0 THEN miners[1] ELSE prev.first]
    /\ UNCHANGED <<cur_time, next_block_time, best_chain_size, best, pc, found, random,
                   finder, ref, harness, chosen, rng>>

NextNotify == TestNotify

SpecNotify == InitNotify /\ [][NextNotify]_vars

\* ------------------------------------------------------ PickFinder alone
\* PickFinder on every miner vector with shares from the grid (whatever their
\* sum) and on the draws next to every multiple of PERC_MULTIPLIER the grid
\* reaches: one below, the multiple, one above.
PercValues == {(100 * k) \div MaxPercLevels : k \in 0..MaxPercLevels}

Draws ==
    {U64Add(U64MulSmall(PERC_MULTIPLIER, c), d) :
        c \in PercValues, d \in {U64Max, U64Zero, U64One}}

InitPick ==
    /\ \E percs \in [MinerIdx -> PercValues] :
           miners = [i \in MinerIdx |-> NewMiner(i - 1, percs[i], 0, FALSE)]
    /\ random \in Draws
    /\ finder = 0
    /\ harness = NoHarness
    /\ chosen = <<>>
    /\ rng = NoRng
    /\ ref = NoRef
    /\ cur_time = 0
    /\ next_block_time = 0
    /\ best_chain_size = 1
    /\ best = NoSpan
    /\ pc = "pick"
    /\ idx = 0
    /\ found = [i \in MinerIdx |-> 0]
    /\ prev = NoOp

PickOne ==
    /\ pc = "pick"
    /\ finder' = PickFinder(miners, random)
    /\ pc' = "picked"
    /\ UNCHANGED <<miners, cur_time, next_block_time, best_chain_size, best, idx, found,
                   prev, random, ref, harness, chosen, rng>>

NextPick == PickOne

SpecPick == InitPick /\ [][NextPick]_vars

\* ------------------------------------------------------------ RNG alone
\* An RNG object built from a seed, then a number of rand64() calls.  The
\* seeds: the small ones, the largest std::random_device result, the largest
\* 64-bit value and the two seeds for which one SplitMix64 result is 0.
U64Neg(a) == U64Add(U64Xor(a, U64Max), U64One)

Seeds ==
    {<<s, 0, 0, 0>> : s \in 0..MaxSeed}
    \cup {<<Limb - 1, Limb - 1, 0, 0>>, U64Max, U64Neg(Gamma), U64Neg(U64Add(Gamma, Gamma))}

InitRng ==
    /\ \E seedval \in Seeds :
           rng = [seed |-> seedval] @@ NewRNG(seedval)
    /\ random = U64Zero
    /\ idx = 0
    /\ pc = "rng"
    /\ prev = NoOp
    /\ miners = [i \in MinerIdx |-> NewMiner(i - 1, SetupPerc(i), 0, FALSE)]
    /\ cur_time = 0
    /\ next_block_time = 0
    /\ best_chain_size = 1
    /\ best = NoSpan
    /\ found = [i \in MinerIdx |-> 0]
    /\ finder = 0
    /\ harness = NoHarness
    /\ chosen = <<>>
    /\ ref = NoRef

\* rng.rand64(): idx counts the calls, prev.m keeps the generator before.
CallRand64 ==
    /\ pc = "rng"
    /\ idx < MaxDraws
    /\ LET r == Rand64(rng)
       IN /\ random' = r.result
          /\ rng' = [rng EXCEPT !.m_s0 = r.m_s0, !.m_s1 = r.m_s1]
    /\ idx' = idx + 1
    /\ prev' = [op |-> "rand64", i |-> 0, m |-> rng]
    /\ UNCHANGED <<miners, cur_time, next_block_time, best_chain_size, best, pc, found,
                   finder, ref, harness, chosen>>

NextRng == CallRand64

SpecRng == InitRng /\ [][NextRng]_vars

\* -------------------------------------------------- Monte Carlo harness
\* SIM_RUNS tasks, at most MaxWorkers of them running at a time.  A task runs
\* one simulation on its own copy of the miners, with its own RNGs, and
\* returns its statistics; the harness folds the returned statistics into the
\* accumulator one at a time.  The statistics of one miner are followed.
SIM_RUNS == MaxRuns
Runs == 1..SIM_RUNS

\* What a run can return for the miner: MinerStats of a final state in which
\* the best chain has MaxRunBlocks blocks after Genesis, n of them the miner's,
\* and the miner has s stale blocks; the ratios as doubles.
FinalChain(n) ==
    <<Genesis>> \o [k \in 1..MaxRunBlocks |->
                       Block(IF k <= n THEN SM_ID ELSE OTHERS_ID, 0)]

FinalMiner(n, s) ==
    [NewMiner(SM_ID, SM_PERC, 0, FALSE) EXCEPT !.chain = FinalChain(n), !.stale_blocks = s]

Dbl(x) == DblDiv(x.num, x.den)

RunStats(n, s) ==
    LET st == MinerStats(FinalMiner(n, s), FinalChain(n))
    IN [blocks_found |-> st.blocks_found,
        blocks_share |-> Dbl(st.blocks_share),
        stale_rate |-> Dbl(st.stale_rate)]

RunOutcomes == {RunStats(n, s) : n \in 0..MaxRunFound, s \in 0..MaxRunStale}

NoStats == [blocks_found |-> 0, blocks_share |-> DblZero, stale_rate |-> DblZero]

\* acc += stats, field by field.
AddStats(acc, st) ==
    [blocks_found |-> acc.blocks_found + st.blocks_found,
     blocks_share |-> DblAdd(acc.blocks_share, st.blocks_share),
     stale_rate |-> DblAdd(acc.stale_rate, st.stale_rate)]

InitHarness ==
    /\ miners = <<>>
    /\ cur_time = 0
    /\ next_block_time = 0
    /\ best_chain_size = 1
    /\ best = NoSpan
    /\ pc = "harness"
    /\ idx = 0
    /\ found = [i \in MinerIdx |-> 0]
    /\ prev = NoOp
    /\ random = U64Zero
    /\ finder = 0
    /\ ref = NoRef
    /\ harness = [task |-> [r \in Runs |-> "todo"],
                  stats |-> [r \in Runs |-> NoStats],
                  acc |-> NoStats,
                  order |-> <<>>]
    /\ chosen = <<>>
    /\ rng = NoRng

HarnessFrame ==
    UNCHANGED <<miners, cur_time, next_block_time, best_chain_size, best, pc, idx, found,
                prev, random, finder, ref, chosen, rng>>

Running == {r \in Runs : harness.task[r] = "running"}

\* A worker takes a task.
StartRun(r) ==
    /\ pc = "harness"
    /\ harness.task[r] = "todo"
    /\ Cardinality(Running) < MaxWorkers
    /\ harness' = [harness EXCEPT !.task[r] = "running"]
    /\ HarnessFrame

\* The task's simulation ends and returns its statistics.
FinishRun(r) ==
    /\ pc = "harness"
    /\ harness.task[r] = "running"
    /\ \E st \in RunOutcomes :
         harness' = [harness EXCEPT !.task[r] = "returned", !.stats[r] = st]
    /\ HarnessFrame

\* Variant: the update of the two ratios is lost.
Fold_LosesRatios(r) ==
    /\ pc = "harness"
    /\ harness.task[r] = "returned"
    /\ harness' = [harness EXCEPT
                       !.task[r] = "folded",
                       !.acc.blocks_found = @ + harness.stats[r].blocks_found,
                       !.order = Append(@, r)]
    /\ HarnessFrame

\* The harness folds a returned result into the accumulator (serialized: on
\* the main thread, or under the mutex).
Fold(r) ==
    /\ pc = "harness"
    /\ harness.task[r] = "returned"
    /\ harness' = [harness EXCEPT
                       !.task[r] = "folded",
                       !.acc = AddStats(@, harness.stats[r]),
                       !.order = Append(@, r)]
    /\ HarnessFrame

NextHarness == \E r \in Runs : StartRun(r) \/ FinishRun(r) \/ Fold(r)

SpecHarness == InitHarness /\ [][NextHarness]_vars

\* ================================================================ claims

LastArrival(chain, n) == chain[n].arrival
PubSize(i) == PublishedSize(miners[i].chain, cur_time)

\* best is the published chain of some miner.
BestIsPublished ==
    \E o \in MinerIdx : BestChain = PublishedChain(miners[o].chain, cur_time)

\* Among the published chains as long as best none arrived strictly earlier.
BestFirstSeen ==
    \A i \in MinerIdx :
        PubSize(i) = best.size =>
            ~(LastArrival(miners[i].chain, PubSize(i)) < LastArrival(BestChain, best.size))

\* C1 as stated: at the end of every step (all miners notified) best_chain is
\* the published chain of some miner, no published chain at cur_time is longer
\* and none of the same length has a strictly earlier last-block arrival.
C1_AsStated ==
    pc = "update" =>
        /\ BestIsPublished
        /\ \A i \in MinerIdx : PubSize(i) <= best.size
        /\ BestFirstSeen

\* C1 amended: the three properties hold of the miners' chains as the scan
\* finds them (before any miner is notified); at the end of the step they
\* still hold except that a selfish miner with propagation 0 may have a
\* longer published chain, made of own blocks it revealed in this step
\* (arrival cur_time + 0).
C1_BestChainAtScan ==
    /\ (pc = "reveal" /\ idx = 1 /\ prev.op = "none") =>
           /\ BestIsPublished
           /\ \A i \in MinerIdx : PubSize(i) <= best.size
           /\ BestFirstSeen
    /\ pc = "update" =>
           /\ BestIsPublished
           /\ BestFirstSeen
           /\ \A i \in MinerIdx :
                  PubSize(i) > best.size =>
                      /\ miners[i].is_selfish
                      /\ miners[i].propagation = 0
                      /\ \A k \in (best.size + 1)..PubSize(i) :
                             miners[i].chain[k] = Block(miners[i].id, cur_time)

\* C1 witness: the scan had to break a tie between two different published
\* chains of maximal length.
C1_Witness ==
    /\ pc = "reveal" /\ idx = 1 /\ prev.op = "none"
    /\ best.size > 1
    /\ \E i \in MinerIdx :
           /\ PubSize(i) = best.size
           /\ LastArrival(miners[i].chain, PubSize(i)) > LastArrival(BestChain, best.size)

\* The miner the last operation acted on, as it is now and as it was before.
After == miners[prev.i]
Before == prev.m

\* C2: NotifyBestChain with a best_chain strictly longer than the miner's
\* whole chain: the reveal phase leaves the miner alone and the reorg phase
\* makes the chain equal to best_chain; after the last notification of a step
\* every miner's chain is at least as long as best_chain.
C2_ReorgAdoptsBestChain ==
    /\ (prev.op = "reveal" /\ best.size > Len(Before.chain)) => After = Before
    /\ (prev.op = "reorg" /\ best.size > Len(Before.chain)) => After.chain = BestChain
    /\ pc = "update" => \A i \in MinerIdx : Len(miners[i].chain) >= best.size

\* C2 witness: a selfish miner with a private block was reorged onto a
\* longer best chain.
C2_Witness ==
    /\ prev.op = "reorg"
    /\ best.size > Len(Before.chain)
    /\ Before.is_selfish
    /\ SelfishBlocks(Before.chain) > 0
    /\ After.chain = BestChain

\* C3: MaybeReorg with a best_chain no longer than the miner's chain changes
\* nothing, chain and stale_blocks alike, even when the two chains differ.
C3_ShortBestChainNoReorg ==
    (prev.op = "reorg" /\ best.size <= Len(Before.chain)) => After = Before

\* C3 witness: MaybeReorg ran with a best_chain of the miner's own length that
\* differs from the miner's chain.
C3_Witness ==
    /\ prev.op = "reorg"
    /\ best.size = Len(Before.chain)
    /\ \E k \in 1..best.size : Before.chain[k] # BestChain[k]
    /\ After = Before

\* Indices at which the miner's old chain holds an own block that best_chain
\* replaces.
OwnReplaced(m, chain) ==
    {k \in 1..Len(m.chain) : m.chain[k] # chain[k] /\ m.chain[k].miner_id = m.id}

StaleCountedOnReorg ==
    (prev.op = "reorg" /\ best.size > Len(Before.chain)) =>
        After.stale_blocks = Before.stale_blocks + Cardinality(OwnReplaced(Before, BestChain))

OnePrivateOvertakenByOne ==
    /\ prev.op = "reorg"
    /\ Before.is_selfish
    /\ SelfishBlocks(Before.chain) = 1
    /\ best.size = Len(Before.chain) + 1

\* C4 as stated: a reorg adds to stale_blocks the number of own blocks it
\* replaces, and a selfish miner with one private block overtaken by a chain
\* one block longer gets exactly 1 more.
C4_AsStated ==
    /\ StaleCountedOnReorg
    /\ OnePrivateOvertakenByOne => After.stale_blocks = Before.stale_blocks + 1

\* C4 amended: a reorg adds to stale_blocks the number of own blocks it
\* replaces; a selfish miner with one private block overtaken by a chain one
\* block longer gets exactly 1 more when its chain agrees with best_chain
\* below the private block, and more when earlier own blocks are replaced too.
C4_StaleCountOnReorg ==
    /\ StaleCountedOnReorg
    /\ OnePrivateOvertakenByOne =>
           /\ After.stale_blocks >= Before.stale_blocks + 1
           /\ (\A k \in 1..(Len(Before.chain) - 1) : Before.chain[k] = BestChain[k]) =>
                  After.stale_blocks = Before.stale_blocks + 1

\* C4 witness: a selfish miner whose single private block was overwritten by
\* a best chain one block longer, and counted once.
C4_Witness ==
    /\ OnePrivateOvertakenByOne
    /\ After.stale_blocks = Before.stale_blocks + 1

\* C5: for every miner, the published chain at the current time is a prefix
\* of the chain in which every block has arrival <= cur_time, and the first
\* block after it (if any) has arrival > cur_time.
C5_PublishedPrefix ==
    \A i \in MinerIdx :
        LET chain == miners[i].chain
            n == PubSize(i)
        IN /\ n \in 0..Len(chain)
           /\ PublishedChain(chain, cur_time) = [k \in 1..n |-> chain[k]]
           /\ \A k \in 1..n : chain[k].arrival <= cur_time
           /\ n < Len(chain) => chain[n + 1].arrival > cur_time

\* C5 witness: a selfish miner whose chain holds a revealed own block that
\* has arrived, in front of a block it keeps private.
C5_Witness ==
    \E i \in MinerIdx :
        LET chain == miners[i].chain
        IN /\ miners[i].is_selfish
           /\ PubSize(i) >= 2
           /\ PubSize(i) < Len(chain)
           /\ chain[PubSize(i)].miner_id = miners[i].id
           /\ chain[Len(chain)].arrival = SELFISH_ARRIVAL

\* C6: in every miner's chain the arrivals never decrease from one index to
\* the next, and the blocks with arrival SELFISH_ARRIVAL form one run at the
\* tail.
C6_ArrivalsMonotonic ==
    \A i \in MinerIdx :
        LET chain == miners[i].chain
        IN /\ \A k \in 1..(Len(chain) - 1) : chain[k].arrival <= chain[k + 1].arrival
           /\ \A k \in 1..Len(chain) :
                  chain[k].arrival = SELFISH_ARRIVAL => k > Len(chain) - SelfishBlocks(chain)

\* C6 witness: a chain with another miner's block, then an own block revealed
\* later, then a private block, among miners of different propagation.
C6_Witness ==
    \E i, j \in MinerIdx :
        LET chain == miners[i].chain
        IN /\ miners[i].propagation # miners[j].propagation
           /\ Len(chain) >= 4
           /\ chain[2].miner_id = miners[j].id
           /\ chain[Len(chain) - 1].miner_id = miners[i].id
           /\ chain[Len(chain) - 1].arrival > chain[2].arrival
           /\ chain[Len(chain) - 1].arrival < SELFISH_ARRIVAL
           /\ chain[Len(chain)].arrival = SELFISH_ARRIVAL

\* C7 as stated: stale_blocks of a miner never exceeds the number of blocks
\* the miner found.
C7_StaleAtMostFound ==
    \A i \in MinerIdx : miners[i].stale_blocks <= found[i]

\* C8: every chain is non-empty and starts with the genesis block.
C8_GenesisFirst ==
    \A i \in MinerIdx : Len(miners[i].chain) >= 1 /\ miners[i].chain[1] = Genesis

\* C8 witness: a selfish miner that found, revealed and lost blocks in a
\* reorg still has the genesis block in front.
C8_Witness ==
    \E i \in MinerIdx :
        /\ miners[i].is_selfish
        /\ miners[i].stale_blocks > 0
        /\ Len(miners[i].chain) >= 3
        /\ miners[i].chain[1] = Genesis

\* C9: an honest miner's chain never holds a block with arrival
\* SELFISH_ARRIVAL, so its SelfishBlocks() is 0.
C9_HonestNoPrivate ==
    \A i \in MinerIdx :
        ~miners[i].is_selfish =>
            /\ SelfishBlocks(miners[i].chain) = 0
            /\ \A k \in 1..Len(miners[i].chain) : miners[i].chain[k].arrival # SELFISH_ARRIVAL

\* C9 witness: an honest miner reorged onto a chain with a selfish miner's
\* block while that selfish miner keeps a private block.
C9_Witness ==
    \E i, j \in MinerIdx :
        /\ ~miners[i].is_selfish
        /\ miners[j].is_selfish
        /\ SelfishBlocks(miners[j].chain) > 0
        /\ \E k \in 1..Len(miners[i].chain) : miners[i].chain[k].miner_id = miners[j].id

SumBlocksFound(chain) ==
    LET RECURSIVE Sum(_)
        Sum(i) == IF i = 0 THEN 0 ELSE BlocksFoundIn(miners[i], chain) + Sum(i - 1)
    IN Sum(NumMiners)

\* C10: for the best chain C of a step (any step can be the last one), the
\* blocks_found of all miners add up to |C| - 1.
C10_BlocksFoundSum ==
    pc = "update" => SumBlocksFound(BestChain) = best.size - 1

\* C10 witness: a best chain with blocks of two different miners.
C10_Witness ==
    /\ pc = "update"
    /\ best.size >= 3
    /\ \E k \in 2..best.size : BestChain[k].miner_id # BestChain[2].miner_id

\* ------------------------------------------------------------------ C11
\* C11: FoundBlock on an honest miner appends exactly one block, with the
\* miner's id and arrival block_time + propagation, whatever best_chain_size
\* is; the blocks already in the chain, stale_blocks and every other miner
\* stay as they were.
C11_HonestFoundBlock ==
    [][\A f \in MinerIdx :
          (found'[f] # found[f] /\ ~miners[f].is_selfish)
          => miners' = [miners EXCEPT ![f].chain =
                           Append(@, Block(miners[f].id,
                                           next_block_time + miners[f].propagation))]]_vars

\* An honest miner with propagation > 0 found two blocks in a row while
\* best_chain_size was not the size of its chain.
C11_Witness ==
    /\ prev.op = "found"
    /\ ~Before.is_selfish
    /\ Before.propagation > 0
    /\ Len(Before.chain) > 2
    /\ best_chain_size # Len(Before.chain)
    /\ Before.chain[Len(Before.chain)].miner_id = Before.id
    /\ Before.chain[Len(Before.chain)].arrival > cur_time
    /\ Len(After.chain) = Len(Before.chain) + 1

\* ------------------------------------------------------------------ C12
\* The race condition of FoundBlock, on the miner as it was before the call.
IsRace(m, bcs) == SelfishBlocks(m.chain) = 1 /\ bcs = Len(m.chain)

\* C12: FoundBlock on a selfish miner, whenever the race condition does not
\* hold, appends exactly one block with the miner's id and arrival
\* SELFISH_ARRIVAL and changes nothing else of the miner.
C12_SelfishFoundBlock ==
    (prev.op = "found" /\ Before.is_selfish /\ ~IsRace(Before, best_chain_size))
    => After = [Before EXCEPT !.chain = Append(@, Block(Before.id, SELFISH_ARRIVAL))]

\* A selfish miner with one private block and a best chain one block shorter
\* than its own found a second private block.
C12_Witness ==
    /\ prev.op = "found"
    /\ Before.is_selfish
    /\ SelfishBlocks(Before.chain) = 1
    /\ best_chain_size = Len(Before.chain) - 1
    /\ SelfishBlocks(After.chain) = 2

\* ------------------------------------------------------------------ C13
\* C13: FoundBlock on a selfish miner with exactly one private block and
\* best_chain_size equal to its chain length gives that block the arrival
\* block_time + propagation and appends one own block with the same arrival:
\* the chain has grown by exactly one and holds no SELFISH_ARRIVAL block.
C13_RaceWon ==
    (prev.op = "found" /\ Before.is_selfish /\ IsRace(Before, best_chain_size))
    => LET n == Len(Before.chain)
           published == cur_time + Before.propagation
       IN /\ Len(After.chain) = n + 1
          /\ SubSeq(After.chain, 1, n - 1) = SubSeq(Before.chain, 1, n - 1)
          /\ After.chain[n] = Block(Before.chain[n].miner_id, published)
          /\ After.chain[n + 1] = Block(Before.id, published)
          /\ \A k \in 1..(n + 1) : After.chain[k].arrival # SELFISH_ARRIVAL
          /\ After.stale_blocks = Before.stale_blocks

\* Case (b) of the test: the others' block and the pool's private block on
\* the same parent, best chain as long as the pool's, the pool finds a block.
C13_Witness ==
    /\ prev.op = "found"
    /\ Before.is_selfish
    /\ Before.propagation > 0
    /\ IsRace(Before, best_chain_size)
    /\ Len(Before.chain) > 2
    /\ Before.chain[Len(Before.chain) - 1].miner_id = OTHERS_ID
    /\ SelfishBlocks(After.chain) = 0
    /\ Len(After.chain) = Len(Before.chain) + 1

\* ------------------------------------------------------------------ C14
\* The miner before its MaybeSelfishReveal call is selfish, has priv private
\* blocks and is lead blocks ahead of best_chain (lead >= 0).
RevealCase(priv, lead) ==
    /\ prev.op = "reveal"
    /\ Before.is_selfish
    /\ SelfishBlocks(Before.chain) = priv
    /\ Len(Before.chain) - Len(BestChain) = lead

\* The chain after the call is the chain before it with the arrival of the
\* blocks at from..to set to cur_time + propagation, nothing else changed.
Revealed(from, to) ==
    /\ Len(After.chain) = Len(Before.chain)
    /\ \A k \in 1..Len(Before.chain) :
          After.chain[k] =
              IF k \in from..to
              THEN Block(Before.chain[k].miner_id, cur_time + Before.propagation)
              ELSE Before.chain[k]
    /\ After.stale_blocks = Before.stale_blocks

\* C14: a selfish miner with exactly one private block, notified of a best
\* chain as long as its own, reveals that block (arrival cur_time +
\* propagation); nothing else changes, the chain length and stale_blocks stay,
\* and the reorg phase of the notification leaves the miner alone.
C14_TieReveal ==
    /\ RevealCase(1, 0) => Revealed(Len(Before.chain), Len(Before.chain))
    /\ (prev.op = "reorg" /\ Before.is_selfish /\ Len(Before.chain) = Len(BestChain))
       => After = Before

\* Case (f): the others' block is published, the pool's single private block
\* sits at the same height and is revealed.
C14_Witness ==
    /\ RevealCase(1, 0)
    /\ Before.propagation > 0
    /\ BestChain[Len(BestChain)].miner_id # Before.id
    /\ After.chain[Len(After.chain)] = Block(Before.id, cur_time + Before.propagation)
    /\ SelfishBlocks(After.chain) = 0

\* ------------------------------------------------------------------ C15
\* C15: a selfish miner with more than one private block whose lead over
\* best_chain is exactly 1 reveals all its private blocks, each with arrival
\* cur_time + propagation; no SELFISH_ARRIVAL block remains.
C15_RevealAllAtLeadOne ==
    LET n == Len(Before.chain)
        priv == SelfishBlocks(Before.chain)
    IN (RevealCase(priv, 1) /\ priv > 1)
       => /\ Revealed(n - priv + 1, n)
          /\ \A k \in 1..n : After.chain[k].arrival # SELFISH_ARRIVAL

\* Case (g): a lead of more than two blocks melted to one, three private
\* blocks are published together.
C15_Witness ==
    /\ RevealCase(3, 1)
    /\ Before.propagation > 0
    /\ SelfishBlocks(After.chain) = 0
    /\ After.chain[Len(After.chain) - 2].arrival = cur_time + Before.propagation

\* ------------------------------------------------------------------ C16
\* C16: a selfish miner with priv private blocks and a lead of 0 or of at
\* least 2 over best_chain, priv > lead, reveals exactly its priv - lead
\* oldest private blocks (arrival cur_time + propagation); the lead newest
\* ones keep SELFISH_ARRIVAL.
C16_RevealOldest ==
    LET n == Len(Before.chain)
        priv == SelfishBlocks(Before.chain)
        lead == n - Len(BestChain)
    IN (RevealCase(priv, lead) /\ priv > lead /\ (lead = 0 \/ lead >= 2))
       => /\ Revealed(n - priv + 1, n - lead)
          /\ \A k \in (n - lead + 1)..n : After.chain[k].arrival = SELFISH_ARRIVAL

\* Case (h): the others catch up by one block against a lead of three, one
\* private block of three is revealed.
C16_Witness ==
    /\ RevealCase(3, 2)
    /\ Before.propagation > 0
    /\ SelfishBlocks(After.chain) = 2
    /\ After.chain[Len(After.chain) - 2].arrival = cur_time + Before.propagation

\* ------------------------------------------------------------------ C17
\* C17: MaybeSelfishReveal changes nothing when the miner is honest, when
\* best_chain is longer than the miner's chain, or when the miner has no more
\* private blocks than its lead (no private block included).
C17_RevealFrame ==
    [][(/\ pc = "reveal"
        /\ \/ ~miners[idx].is_selfish
           \/ Len(BestChain) > Len(miners[idx].chain)
           \/ SelfishBlocks(miners[idx].chain) <= Len(miners[idx].chain) - Len(BestChain))
       => miners' = miners]_vars

\* A selfish miner two blocks ahead with two private blocks keeps both.
C17_Witness ==
    /\ RevealCase(2, 2)
    /\ After = Before

\* ------------------------------------------------------------------ C18
\* The sum of the shares of the first k miners, and that sum times
\* PERC_MULTIPLIER modulo 2^64.
SumPerc(k) == PercBefore(miners, k + 1)
CumWeight(k) == U64MulSmall(PERC_MULTIPLIER, SumPerc(k))

\* C18: PickFinder returns the first miner, in vector order, whose cumulative
\* weight modulo 2^64 is strictly greater than the draw (no miner when there
\* is none); when the shares add up to at most 100 miner k is returned
\* exactly for the draws from CumWeight(k - 1) up to CumWeight(k) - 1, which
\* are perc * PERC_MULTIPLIER draws.
C18_PickFinder ==
    pc = "picked"
    => /\ \A k \in MinerIdx :
             finder = k <=> /\ U64Greater(CumWeight(k), random)
                            /\ \A j \in 1..(k - 1) : ~U64Greater(CumWeight(j), random)
       /\ finder = 0 <=> \A j \in MinerIdx : ~U64Greater(CumWeight(j), random)
       /\ SumPerc(NumMiners) <= 100
          => \A k \in MinerIdx :
                finder = k <=> /\ ~U64Greater(CumWeight(k - 1), random)
                               /\ U64Greater(CumWeight(k), random)

\* Shares that add up to 100, none of them 0, and the draw equal to the
\* weight of the first miner: the second miner is returned.
C18_Witness ==
    /\ pc = "picked"
    /\ SumPerc(NumMiners) = 100
    /\ \A k \in MinerIdx : miners[k].perc > 0
    /\ random = CumWeight(1)
    /\ finder = 2

\* ------------------------------------------------------------------ C19
\* C19: whenever the shares do not add up to 100, PickFinder returns no
\* miner (its assertion fails), whatever the draw.
C19_AssertsOnBadSum ==
    (pc = "picked" /\ SumPerc(NumMiners) # 100) => finder = 0

\* ------------------------------------------------------------------ C20
\* C20: in every iteration of the loop, after the drain of the finds that are
\* due, cur_time < next_block_time (the assertion never fails), whatever the
\* intervals drawn, intervals of 0 included; cur_time never passes a find
\* time that was not processed.
C20_NoMissedBlock ==
    /\ pc # "missed_block"
    /\ cur_time <= next_block_time
    /\ pc \in {"reveal", "reorg", "update"} => cur_time < next_block_time

\* After the first millisecond two finds fell on the same millisecond (an
\* interval of 0), the drain took both and the next find is 1 ms away.
C20_Witness ==
    /\ pc = "reveal"
    /\ cur_time > 0
    /\ next_block_time = cur_time + 1
    /\ \E i \in MinerIdx :
          LET c == miners[i].chain
          IN /\ ~miners[i].is_selfish
             /\ Len(c) > 2
             /\ c[Len(c)] = Block(miners[i].id, cur_time + miners[i].propagation)
             /\ c[Len(c) - 1] = c[Len(c)]

\* ------------------------------------------------------------------ C21
\* C21: at every time the jump-ahead loop visits, and at the end of the run,
\* the miners (chains, stale_blocks) and best_chain_size are those of the loop
\* that advances 1 ms at a time on the same intervals and finders, and the
\* final best chain is the same.
RefFinalBest == SpanChain(ref.miners, ScanBestChain(ref.miners, SIM_DURATION))

C21_JumpSameAsOneMs ==
    /\ pc \in {"drain", "final", "done"} =>
          miners = ref.miners /\ best_chain_size = ref.bcs
    /\ pc = "done" => BestChain = RefFinalBest

\* ------------------------------------------------------------------ C22
\* C22: the best_chain_size passed to FoundBlock at a find is the length of
\* the best chain computed in the most recent completed step (1 before any
\* step): it changes only at the end of a step, to the size of that step's
\* best chain, so it counts no block published or found in the current step,
\* and all finds drained in the same step are passed the same value.
C22_BestChainSizeAtFind ==
    [][/\ pc = "update" => best_chain_size' = best.size
       /\ pc # "update" => best_chain_size' = best_chain_size
       /\ found' # found => /\ prev'.op = "found"
                            /\ prev'.bcs = best_chain_size
                            /\ cur_time = 0 => prev'.bcs = 1
                            /\ prev.op = "found" => prev'.bcs = prev.bcs]_vars

C22_Witness ==
    /\ prev.op = "found"
    /\ cur_time > 0
    /\ prev.bcs = 2
    /\ \E i \in MinerIdx : i # prev.i /\ PubSize(i) > prev.bcs

\* ------------------------------------------------------------------ C23
\* C23: every run terminates: cur_time never decreases, strictly increases
\* at the end of every iteration, and the run eventually reaches
\* cur_time >= SIM_DURATION, leaves the loop and computes the final best chain.
C23_Terminates ==
    /\ [][cur_time' >= cur_time /\ (pc = "update" => cur_time' > cur_time)]_vars
    /\ <>(pc = "done" /\ cur_time >= SIM_DURATION /\ best # NoSpan)

\* ------------------------------------------------------------------ C24
\* The published chains of miners m1 and m2 at time t differ at an index both
\* have.
PubDiffer(m1, m2, t) ==
    LET p1 == PublishedChain(miners[m1].chain, t)
        p2 == PublishedChain(miners[m2].chain, t)
    IN \E i \in 1..Len(p1) : i <= Len(p2) /\ p1[i] # p2[i]

RaceAt(s, j, h) ==
    /\ miners[s].is_selfish
    /\ ~miners[j].is_selfish
    /\ h >= 2
    /\ PubSize(s) = h
    /\ PubSize(j) = h
    /\ \A i \in MinerIdx : PubSize(i) <= h
    /\ SubSeq(miners[s].chain, 1, h - 1) = SubSeq(miners[j].chain, 1, h - 1)
    /\ miners[s].chain[h].miner_id = miners[s].id
    /\ miners[j].chain[h].miner_id # miners[s].id

\* C25: in a 1-block race no honest miner has the selfish miner's block at the
\* height of the race, and at the end of the step every honest miner's chain
\* reaches that height: they keep, or adopted, an honest block there.
C25_RaceKeepsHonestBlock ==
    \A s, j \in MinerIdx : \A h \in 2..(MaxFinds + 1) :
        RaceAt(s, j, h) =>
            \A m \in MinerIdx :
                ~miners[m].is_selfish =>
                    /\ Len(miners[m].chain) >= h =>
                           miners[m].chain[h].miner_id # miners[s].id
                    /\ pc = "update" => Len(miners[m].chain) >= h

C25_Witness ==
    /\ pc = "update"
    /\ \E s, j, m \in MinerIdx : \E h \in 2..(MaxFinds + 1) :
         /\ RaceAt(s, j, h)
         /\ m # j
         /\ ~miners[m].is_selfish
         /\ Len(miners[m].chain) = h
         /\ best.owner = s

\* ------------------------------------------------------------------ C26
\* The statistics are computed at the end of a step, after the notification,
\* at some of the times after 0.
PrintPoint == pc = "update" /\ cur_time > 0

\* C26: computing a miner's statistics never divides by zero, with
\* MinerStats over the best chain and with BlocksFoundShare and StaleRate
\* over the miner's own chain, and a miner with no block counted gets
\* blocks_found = 0, blocks_share = 0 and stale_rate = 0.
StatsOk(found_blocks, share, rate) ==
    /\ share.kind # "div_by_zero"
    /\ rate.kind # "div_by_zero"
    /\ found_blocks = 0 => IsZero(share) /\ IsZero(rate)

C26_MinerStats ==
    PrintPoint =>
        \A i \in MinerIdx :
            LET st == MinerStats(miners[i], BestChain)
            IN StatsOk(st.blocks_found, st.blocks_share, st.stale_rate)

C26_StatsNeverDivideByZero ==
    PrintPoint =>
        \A i \in MinerIdx :
            /\ LET st == MinerStats(miners[i], BestChain)
               IN StatsOk(st.blocks_found, st.blocks_share, st.stale_rate)
            /\ StatsOk(BlocksFound(miners[i], cur_time),
                       BlocksFoundShare(miners[i], cur_time),
                       StaleRate(miners[i], cur_time))

\* ------------------------------------------------------------------ C27
\* The results folded so far, added up in the order given.
RECURSIVE FoldInOrder(_, _)
FoldInOrder(order, k) ==
    IF k = 0 THEN NoStats
    ELSE AddStats(FoldInOrder(order, k - 1), harness.stats[order[k]])

AllFolded == pc = "harness" /\ \A r \in Runs : harness.task[r] = "folded"

LeadBound(m, bcs) == SelfishBlocks(m.chain) <= Len(m.chain) - bcs

C28_PrivateWithinLead ==
    /\ pc = "drain" => \A i \in MinerIdx :
                          miners[i].is_selfish => LeadBound(miners[i], best_chain_size)
    /\ pc = "update" => \A i \in MinerIdx :
                           miners[i].is_selfish => LeadBound(miners[i], best.size)
    /\ (prev.op = "found" /\ Before.is_selfish) =>
           LeadBound(Before, prev.bcs) /\ ~IsRace(Before, prev.bcs)

C28_Witness ==
    /\ prev.op = "found"
    /\ Before.is_selfish
    /\ SelfishBlocks(Before.chain) = 2
    /\ Len(Before.chain) - prev.bcs = 2
    /\ cur_time > 0

\* ------------------------------------------------------------------ C29
\* The blocks of miner i in its own chain.
OwnInChain(i) == CountId(miners[i].chain, miners[i].id, Len(miners[i].chain))

\* C29: for every miner, blocks found = stale_blocks + its blocks in its own
\* chain; a block of the miner that is in its chain is not counted stale.
C29_FoundStaleOrInChain ==
    \A i \in MinerIdx : found[i] = miners[i].stale_blocks + OwnInChain(i)

\* ------------------------------------------------------------------ C30
\* C30: no FoundBlock or NotifyBestChain call (reveal, then reorg) makes the
\* miner's chain shorter, and the best chain of a step is at least as long as
\* the best chain of the step before.
C30_LengthsNeverDecrease ==
    /\ prev.op \in {"found", "reveal", "reorg"} =>
           Len(After.chain) >= Len(Before.chain)
    /\ pc = "update" => best.size >= best_chain_size

C30_Witness ==
    /\ pc = "update"
    /\ best.size > best_chain_size
    /\ best_chain_size > 1
    /\ prev.op = "reorg"
    /\ Len(After.chain) > Len(Before.chain)
    /\ \E i \in MinerIdx : Len(miners[i].chain) > best.size

\* ------------------------------------------------------------------ C31
\* The miners as they were before the last miner operation.
MinersBefore == [miners EXCEPT ![prev.i] = prev.m]

\* C31: within one step the best_chain view keeps its contents: no reveal
\* or reorg phase of any miner's notification changes a block inside the
\* view, and neither phase of the owner's notification changes the length
\* of the owner's chain (the owner is never reorged; its reveal leaves the
\* blocks of the view alone).
C31_BestChainViewStable ==
    prev.op \in {"reveal", "reorg"} =>
        /\ BestChain = SpanChain(MinersBefore, best)
        /\ Len(miners[best.owner].chain) = Len(MinersBefore[best.owner].chain)
        /\ (prev.op = "reorg" /\ prev.i = best.owner) => After = Before

\* C31 witness: the owner of the view is a selfish miner holding a private
\* block; it has been notified, and a miner notified after it was reorged
\* onto the view.
C31_Witness ==
    /\ prev.op = "reorg"
    /\ prev.i > best.owner
    /\ After # Before
    /\ After.chain = BestChain
    /\ miners[best.owner].is_selfish
    /\ SelfishBlocks(miners[best.owner].chain) > 0

\* ------------------------------------------------------------------ C32
\* NotifyBestChain with its two phases in the opposite order.
ReorgThenReveal(m, best_chain, t) ==
    MaybeSelfishReveal(MaybeReorg(m, best_chain), best_chain, t)

\* C32: in every NotifyBestChain call at most one phase modifies the miner:
\* the reveal phase only when len(best_chain) <= len(chain), the reorg phase
\* only when len(best_chain) > len(chain); the phases run in the opposite
\* order give the same miner (chain and stale_blocks).
C32_OnePhaseActs ==
    prev.op = "reveal" =>
        LET revealed == MaybeSelfishReveal(Before, BestChain, cur_time)
            reorged == MaybeReorg(revealed, BestChain)
        IN /\ revealed = After
           /\ ~(revealed # Before /\ reorged # revealed)
           /\ revealed # Before => best.size <= Len(Before.chain)
           /\ reorged # revealed => best.size > Len(Before.chain)
           /\ reorged = NotifyBestChain(Before, BestChain, cur_time)
           /\ ReorgThenReveal(Before, BestChain, cur_time) = reorged

\* C32 witness: the boundary between the phases: the best chain is exactly as
\* long as the chain of a selfish miner, whose reveal phase publishes a block
\* and whose reorg phase then leaves it alone.
C32_Witness ==
    /\ prev.op = "reveal"
    /\ best.size = Len(Before.chain)
    /\ After # Before
    /\ MaybeReorg(After, BestChain) = After

\* ------------------------------------------------------------------ C33
\* C33: NotifyBestChain is idempotent: a second call with the same best
\* chain and the same cur_time leaves the miner (chain and stale_blocks) as
\* the first call left it.
C33_NotifyIdempotent ==
    (prev.op = "notify" /\ idx = 2) =>
        /\ After = Before
        /\ After = NotifyBestChain(prev.first, BestChain, cur_time)

\* C33 witness: the first call revealed a part of the private branch and
\* kept the rest; the second call was made on the result.
C33_Witness ==
    /\ prev.op = "notify"
    /\ idx = 2
    /\ Before # prev.first
    /\ SelfishBlocks(prev.first.chain) > SelfishBlocks(Before.chain)
    /\ SelfishBlocks(Before.chain) > 0
    /\ After = Before

\* ------------------------------------------------------------------ C34
\* C34: in every state every block a miner holds that has not arrived yet
\* (arrival > cur_time: in flight or private), and so every block of its
\* unpublished suffix, carries the miner's own id; and the best chain
\* handed to the miners holds no block with arrival > cur_time.
C34_UnpublishedAreOwn ==
    /\ \A i \in MinerIdx : \A k \in 1..Len(miners[i].chain) :
           miners[i].chain[k].arrival > cur_time =>
               /\ miners[i].chain[k].miner_id = miners[i].id
               /\ k > PubSize(i)
    /\ \A k \in 1..best.size : BestChain[k].arrival <= cur_time

\* C34 witness: a miner that was reorged onto a best chain ending with
\* another miner's block, while some miner holds both an in-flight and a
\* private block of its own behind its published chain.
C34_Witness ==
    /\ prev.op = "reorg"
    /\ After # Before
    /\ After.chain[Len(After.chain)].miner_id # After.id
    /\ \E i \in MinerIdx : \E k \in 2..(Len(miners[i].chain) - 1) :
           /\ k > PubSize(i)
           /\ miners[i].chain[k].arrival # SELFISH_ARRIVAL
           /\ miners[i].chain[k + 1].arrival = SELFISH_ARRIVAL

\* ------------------------------------------------------------------ C35
\* C35 as stated: a step never chooses a best chain as long as the best
\* chain of the step before but with other blocks.
C35_AsStated ==
    (best # NoSpan /\ best.size = Len(chosen)) => BestChain = chosen

\* C35 amended: the best chain never gets shorter, and a step chooses a best
\* chain as long as the one of the step before but with other blocks only
\* in one case: a selfish miner with propagation 0, standing in the miner
\* vector before every miner that holds the former best chain, revealed its
\* block during the step before (arrival cur_time - 1), and the last block
\* of the former best chain arrived at that same millisecond.
C35_FirstSeenStable ==
    best # NoSpan =>
        /\ best.size >= Len(chosen)
        /\ (best.size = Len(chosen) /\ BestChain # chosen) =>
               /\ miners[best.owner].is_selfish
               /\ miners[best.owner].propagation = 0
               /\ BestChain[best.size] = Block(miners[best.owner].id, cur_time - 1)
               /\ chosen[best.size].arrival = cur_time - 1
               /\ \A i \in MinerIdx :
                      SubSeq(miners[i].chain, 1, best.size) = chosen => i > best.owner

\* C35 witness: two different published chains of the same length, and the
\* step chooses the one the step before chose.
C35_Witness ==
    /\ best # NoSpan
    /\ best.size > 1
    /\ BestChain = chosen
    /\ \E i \in MinerIdx :
           /\ PubSize(i) = best.size
           /\ PublishedChain(miners[i].chain, cur_time) # chosen

\* ------------------------------------------------------------------ C36
\* No miner holds a block that has not arrived by cur_time.
NoneUnpublished ==
    \A i \in MinerIdx : UnpublishedBlocks(miners[i].chain, cur_time) = 0

\* C36 as stated: at the end of a step in which no miner has an unpublished
\* block (in flight or private) all chains are as long as the best chain of
\* the step.
C36_AsStated ==
    (pc = "update" /\ NoneUnpublished) =>
        \A i \in MinerIdx : Len(miners[i].chain) = best.size

\* C36 amended: at the end of such a step every chain is at least as long
\* as the best chain and is longer only for a selfish miner with propagation
\* 0, whose blocks beyond the best chain are its own, revealed in this step
\* (arrival cur_time); all the other chains have the length of the best chain.
C36_EqualLengthsWhenPublished ==
    (pc = "update" /\ NoneUnpublished) =>
        \A i \in MinerIdx :
            /\ Len(miners[i].chain) >= best.size
            /\ Len(miners[i].chain) > best.size =>
                   /\ miners[i].is_selfish
                   /\ miners[i].propagation = 0
                   /\ \A k \in (best.size + 1)..Len(miners[i].chain) :
                          miners[i].chain[k] = Block(miners[i].id, cur_time)

\* C36 witness: a step ends with every block arrived and all chains as long
\* as a best chain of three blocks or more, the last miner having been
\* reorged onto it in this step.
C36_Witness ==
    /\ pc = "update"
    /\ NoneUnpublished
    /\ best.size > 2
    /\ \A i \in MinerIdx : Len(miners[i].chain) = best.size
    /\ prev.op = "reorg"
    /\ After # Before

\* ------------------------------------------------------------------ C37
\* C37: with honest miners only, propagation 0 and strictly positive
\* intervals, no reorg overwrites a block (it only appends), stale_blocks
\* stays 0 for every miner, and at the end of every step all chains are
\* identical and hold Genesis and one block per find so far.
C37_HonestNoStale ==
    /\ \A i \in MinerIdx : miners[i].stale_blocks = 0
    /\ prev.op = "reorg" =>
           SubSeq(After.chain, 1, Len(Before.chain)) = Before.chain
    /\ pc = "update" =>
           \A i \in MinerIdx :
               /\ miners[i].chain = miners[1].chain
               /\ Len(miners[i].chain) = TotalFound + 1
               /\ miners[i].chain = BestChain

\* C37 witness: three blocks found by at least two different miners, and
\* the last miner notified has just appended the newest of them.
C37_Witness ==
    /\ pc = "update"
    /\ TotalFound = 3
    /\ Cardinality({i \in MinerIdx : found[i] > 0}) >= 2
    /\ prev.op = "reorg"
    /\ Len(After.chain) = Len(Before.chain) + 1

\* ------------------------------------------------------------------ C38
\* C38: when the shares add up to exactly 100, PickFinder returns a miner
\* for every draw: the last cumulative weight, 100 * PERC_MULTIPLIER, is
\* strictly greater than the draw and the assertion is not reached.
C38_ValidSharesAlwaysPick ==
    (pc = "picked" /\ SumPerc(NumMiners) = 100) =>
        /\ U64Greater(CumWeight(NumMiners), random)
        /\ finder # 0

\* ------------------------------------------------------------------ C39
\* The draws next to every multiple of PERC_MULTIPLIER up to 100 of them,
\* and the draws of the loop.
ZeroDraws == Draws \cup FinderDraws(miners) \cup
             {U64Add(U64MulSmall(PERC_MULTIPLIER, c), d) :
                 c \in {PercBefore(miners, k) : k \in 1..(NumMiners + 1)},
                 d \in {U64Max, U64Zero, U64One}}

\* C39: PickFinder never returns a miner whose perc is 0, whatever the draw
\* and wherever the miner stands in the vector; such a miner never finds a
\* block, and its chain only changes in the reorg phase of a notification.
C39_ZeroPercNeverFinds ==
    /\ (pc = "drain" /\ TotalFound = 0) =>
           \A r \in ZeroDraws :
               LET f == PickFinder(miners, r)
               IN f # 0 => miners[f].perc # 0
    /\ prev.op = "found" => Before.perc # 0
    /\ \A i \in MinerIdx :
           miners[i].perc = 0 =>
               /\ found[i] = 0
               /\ \A k \in 1..Len(miners[i].chain) :
                      miners[i].chain[k].miner_id # miners[i].id
               /\ (prev.i = i /\ After # Before) => prev.op = "reorg"

\* C39 witness: the miner with perc = 0 stands first in the vector, the draw
\* was 0, another miner was returned and found the block, and the miner with
\* perc = 0 has been reorged onto a chain with that block.
C39_Witness ==
    /\ miners[1].perc = 0
    /\ PickFinder(miners, U64Zero) = 2
    /\ found[2] > 0
    /\ prev.op = "reorg"
    /\ prev.i = 1
    /\ After # Before
    /\ Len(After.chain) > 2

\* ------------------------------------------------------------------ C40
\* The mixing steps of SplitMix64 applied to the advanced seed z.
MixOf(z) ==
    LET z1 == U64Mul(U64Xor(z, U64Shr(z, 30)), MixMul1)
        z2 == U64Mul(U64Xor(z1, U64Shr(z1, 27)), MixMul2)
    IN U64Xor(z2, U64Shr(z2, 31))

\* C40: s0 and s1 start as the first and the second output of two
\* successive SplitMix64 advances of the seed; each rand64() returns
\* rotl(s0 + s1, 17) + s0 and then sets s1 ^= s0, s0 = rotl(s0, 49) ^ s1 ^
\* (s1 << 21), s1 = rotl(s1, 28), all modulo 2^64; the state (s0, s1) is
\* never (0, 0), for any seed and after any number of draws.
C40_RngState ==
    pc = "rng" =>
        /\ idx = 0 =>
               /\ rng.m_s0 = MixOf(U64Add(rng.seed, Gamma))
               /\ rng.m_s1 = MixOf(U64Add(U64Add(rng.seed, Gamma), Gamma))
        /\ prev.op = "rand64" =>
               LET s0 == prev.m.m_s0
                   s1 == U64Xor(prev.m.m_s1, s0)
               IN /\ random = U64Add(U64Rotl(U64Add(s0, prev.m.m_s1), 17), s0)
                  /\ rng.m_s0 = U64Xor(U64Rotl(s0, 49), U64Xor(s1, U64Shl(s1, 21)))
                  /\ rng.m_s1 = U64Rotl(s1, 28)
        /\ ~(rng.m_s0 = U64Zero /\ rng.m_s1 = U64Zero)

\* C40 witness: the seed for which the first SplitMix64 output is 0 (s0
\* starts at 0, s1 does not); after MaxDraws calls neither word is 0.
C40_Witness ==
    /\ pc = "rng"
    /\ rng.seed = U64Neg(Gamma)
    /\ MixOf(U64Add(rng.seed, Gamma)) = U64Zero
    /\ idx = MaxDraws
    /\ rng.m_s0 # U64Zero
    /\ rng.m_s1 # U64Zero

====
